---------------------------- MODULE Spec2Model ----------------------------
(***************************************************************************)
(* A model of the YMA retrieval-augmented question-answering application:  *)
(* the Streamlit script src/app.py (Reset, Process Files, Ask handlers)    *)
(* and the functions of src/features it calls.                             *)
(*                                                                         *)
(* Text is a sequence of one-character strings, so that strip, slicing,    *)
(* joining and the id format are computed character by character.          *)
(***************************************************************************)
EXTENDS Integers, Sequences, FiniteSets, TLC

VARIABLES
    \* ---- state of the application (specification Spec) ----
    persistent,       \* embedding_store.client: collection name -> (record id -> record)
    ephemeral,        \* app.client (chromadb.Client()): collection name -> (record id -> record)
    processed_files,  \* st.session_state.processed_files (list of names)
    processed_hashes, \* st.session_state.processed_hashes (set of digests)
    processed_json,   \* processed_files.json: whether it exists, and the list it holds
    reasoning_outputs,\* reasoning_outputs/: file name -> what was last written to it
    pc,               \* position of the script: "idle" or "processing" (inside the loop)
    nfiles,           \* len(uploaded_files) of the running batch
    i,                \* loop index of the running batch (0-based)
    reports,          \* what happened to each file of the running batch, in order
    messages,         \* st.success / st.warning / st.error shown by the last handler
    qa,               \* what the last Ask handler did
    asks,             \* number of Ask handlers run so far (bounded by MaxAsks)
    uploads,          \* number of loop iterations run so far (bounded by MaxUploads)
    everRun,          \* history: [name, digest] of every file a loop iteration has run on
    assigned,         \* history: [id, name, idx] of every record sent in a successful upsert
    answers,          \* history: the questions answered and saved so far, in order
    \* ---- function-level specifications ----
    up,               \* SpecUpsert: a call of add_to_vector_collection and its batch
    rr,               \* SpecRerank: a call of re_rank_cross_encoders and its result
    llm,              \* SpecLLM: a call_llm generator and its consumer
    sd,               \* SpecSplit: two runs of ScientificTextSplitter.split_documents
    tf,               \* SpecTemp: a call of extract_figures or process_document and the temp directory
    md                \* SpecMeta: a call of add_to_vector_collection on chunks with metadata objects

appVars == <<persistent, ephemeral, processed_files, processed_hashes, processed_json,
             reasoning_outputs, pc, nfiles, i, reports, messages, qa, asks,
             uploads, everRun, assigned, answers>>
vars == <<appVars, up, rr, llm, sd, tf, md>>

-----------------------------------------------------------------------------
(* Bounds of the model *)

MaxBatch == 2       \* files per Process-Files run
MaxUploads == 2     \* loop iterations over a whole behaviour
MaxTextLen == 2     \* SpecUpsert: characters per chunk, and the largest length filter
MaxSplits == 3      \* SpecUpsert: chunks per call
MaxDocs == 3        \* SpecRerank: candidate documents per call
MaxTopK == 2        \* SpecRerank: largest top_k
MaxScore == 1       \* SpecRerank: scores are 0..MaxScore
MaxContextLen == 3  \* SpecLLM: characters of the context
MaxBudget == 2      \* SpecLLM: largest max_context_chars
MaxFragments == 2   \* content fragments the model service streams
MaxStored == 2      \* SpecQA: files ingested before the questions
MaxAsks == 2        \* SpecQA: questions asked over a whole behaviour
MaxPageLen == 3     \* SpecSplit: characters of a page's text
MaxPdfPages == 2    \* SpecTemp: pages of the uploaded PDF
MaxImages == 2      \* SpecTemp: embedded images per page
MaxMdPage == 1      \* SpecMeta: the chunks come from pages 0..MaxMdPage

-----------------------------------------------------------------------------
(* Text helpers: Python str operations on sequences of characters *)

Whitespace == {" ", "\n"}

Min(a, b) == IF a < b THEN a ELSE b
Max(a, b) == IF a > b THEN a ELSE b

Rep(c, n) == [k \in 1..n |-> c]

RECURSIVE lstrip(_)
lstrip(s) == IF s # <<>> /\ Head(s) \in Whitespace THEN lstrip(Tail(s)) ELSE s

RECURSIVE rstrip(_)
rstrip(s) ==
    IF s # <<>> /\ s[Len(s)] \in Whitespace THEN rstrip(SubSeq(s, 1, Len(s) - 1)) ELSE s

\* str.strip()
strip(s) == rstrip(lstrip(s))

DigitChars == <<"0", "1", "2", "3", "4", "5", "6", "7", "8", "9">>

\* str(n) of a non-negative int, as the f-string formats it
RECURSIVE str_int(_)
str_int(n) ==
    IF n < 10 THEN <<DigitChars[n + 1]>>
    ELSE str_int(n \div 10) \o <<DigitChars[(n % 10) + 1]>>

\* sep.join(parts)
RECURSIVE join(_, _)
join(sep, parts) ==
    IF parts = <<>> THEN <<>>
    ELSE IF Len(parts) = 1 THEN parts[1]
    ELSE parts[1] \o sep \o join(sep, Tail(parts))

Alphabet == <<" ", "\n", "-", ".", "_", "a", "b", "c", "x", "y", "q",
              "0", "1", "2", "3", "4", "5", "6", "7", "8", "9">>

OrdTable == [c \in {Alphabet[k] : k \in 1..Len(Alphabet)} |->
                CHOOSE k \in 1..Len(Alphabet) : Alphabet[k] = c]

\* ord(c)
Ord(c) == OrdTable[c]

\* A digest of a sequence of character codes: the polynomial
\* codes[1]*31^(n-1) + ... + codes[n] modulo 2^15, computed by halves.  It is
\* equal on equal inputs and differs on all the different inputs the
\* specifications below draw.
DigestModulus == 2^15

RECURSIVE pow_mod(_, _)
pow_mod(b, n) ==
    IF n = 0 THEN 1
    ELSE LET half == pow_mod(b, n \div 2)
             sq == (half * half) % DigestModulus
         IN  IF n % 2 = 1 THEN (sq * b) % DigestModulus ELSE sq

RECURSIVE poly(_, _, _)
poly(codes, lo, hi) ==
    IF lo > hi THEN 0
    ELSE IF lo = hi THEN codes[lo] % DigestModulus
    ELSE LET mid == (lo + hi) \div 2
         IN  (poly(codes, lo, mid) * pow_mod(31, hi - mid) + poly(codes, mid + 1, hi))
                % DigestModulus

digest(codes) == (poly(codes, 1, Len(codes)) + 977 * Len(codes)) % DigestModulus

str_hash(text) == digest([k \in 1..Len(text) |-> Ord(text[k])])

DefaultMinChunkLength == 30

\* a text one character below the length filter once trimmed, a second one
\* that passes it
ShortText == Rep("x", DefaultMinChunkLength - 1) \o <<" ", " ">>
LongText == Rep("x", DefaultMinChunkLength)

\* str_hash of the two long texts, computed once
HashMemo == [t \in {ShortText, LongText, strip(ShortText)} |-> str_hash(t)]

\* hash(text) of embedding_store.py: Python's str hash
hash(text) == IF text \in DOMAIN HashMemo THEN HashMemo[text] ELSE str_hash(text)

-----------------------------------------------------------------------------
(* src/features/utils.py *)

\* normalize_filename: '-', '.' and ' ' become '_'
normalize_filename(filename) ==
    [k \in 1..Len(filename) |->
        IF filename[k] \in {"-", ".", " "} THEN "_" ELSE filename[k]]

\* hash_file_content: the md5 hex digest of the file's bytes
hash_file_content(file) == digest([k \in 1..Len(file.data) |-> 1 + hash(file.data[k])])

-----------------------------------------------------------------------------
(* Uploaded files.  A file is its name and its bytes; the bytes are modelled *)
(* by the texts the PDF loader and the splitter deliver for them, in order.  *)

\* the texts of the files the application is given: a file is all short
\* text, one passing chunk, or a short chunk followed by a passing one
AppData == {<<ShortText>>, <<LongText>>, <<ShortText, LongText>>}

FileNames == {<<"a", ".", "b">>, <<"a", "_", "b">>, <<"c">>}

SeqsUpTo(S, n) == UNION {[1..k -> S] : k \in 0..n}

UploadedFiles == [name : FileNames, data : AppData]

-----------------------------------------------------------------------------
(* src/features/document_loader.py *)

Document(text, meta) == [page_content |-> text, metadata |-> meta]

\* ScientificTextSplitter.split_documents: one Document per chunk whose
\* trimmed text is not empty, carrying the parent's metadata
split_documents(texts, meta) ==
    LET kept == SelectSeq(texts, LAMBDA t : strip(t) # <<>>)
    IN  [k \in 1..Len(kept) |-> Document(kept[k], meta)]

\* process_document: the chunks of the file, or [] when anything raised
process_document(file, outcome) ==
    IF outcome = "ok"
    THEN split_documents(file.data, [page |-> 0])
    ELSE <<>>

-----------------------------------------------------------------------------
(* src/features/file_management.py *)

\* processed_files.json: whether it exists and the list it holds
NoFile == [exists |-> FALSE, list |-> <<>>]
JsonFile(list) == [exists |-> TRUE, list |-> list]

load_processed_files(json) == IF json.exists THEN json.list ELSE <<>>

InList(x, list) == \E k \in 1..Len(list) : list[k] = x

\* update_processed_files: the contents of processed_files.json afterwards
update_processed_files(json, file_name) ==
    LET list == load_processed_files(json)
    IN  IF InList(file_name, list) THEN json ELSE JsonFile(Append(list, file_name))

-----------------------------------------------------------------------------
(* src/features/embedding_store.py: the upsert side *)

CollectionName == "rag_app"

\* f"{file_name}_{idx}"
record_id(file_name, idx) == file_name \o <<"_">> \o str_int(idx)

\* lines 87-121: the loop over enumerate(all_splits); k is idx + 1
RECURSIVE filter_loop(_, _, _, _, _, _)
filter_loop(all_splits, file_name, min_chunk_length, k, seen_chunks, batch) ==
    IF k > Len(all_splits) THEN batch
    ELSE
        LET split == all_splits[k]
            idx == k - 1
            text == strip(split.page_content)
        IN  IF Len(text) < min_chunk_length
            THEN filter_loop(all_splits, file_name, min_chunk_length,
                             k + 1, seen_chunks, batch)
            ELSE IF hash(text) \in seen_chunks
            THEN filter_loop(all_splits, file_name, min_chunk_length,
                             k + 1, seen_chunks, batch)
            ELSE filter_loop(all_splits, file_name, min_chunk_length, k + 1,
                             seen_chunks \cup {hash(text)},
                             Append(batch,
                                [id |-> record_id(file_name, idx),
                                 document |-> text,
                                 metadata |->
                                    [page |-> split.metadata.page,
                                     source_file |-> file_name,
                                     chunk_id |-> idx,
                                     text_length |-> Len(text)]]))

\* Mutant: the seen_chunks check is missing, every long enough chunk is kept
prepare_batch_no_dedup(all_splits, file_name, min_chunk_length) ==
    LET keep == {k \in 1..Len(all_splits) :
                    Len(strip(all_splits[k].page_content)) >= min_chunk_length}
        nth(n) == CHOOSE k \in keep : Cardinality({j \in keep : j < k}) = n - 1
    IN  [n \in 1..Cardinality(keep) |->
            [id |-> record_id(file_name, nth(n) - 1),
             document |-> strip(all_splits[nth(n)].page_content),
             metadata |-> [page |-> all_splits[nth(n)].metadata.page,
                           source_file |-> file_name,
                           chunk_id |-> nth(n) - 1,
                           text_length |-> Len(strip(all_splits[nth(n)].page_content))]]]

\* the documents, metadatas and ids handed to collection.upsert
prepare_batch(all_splits, file_name, min_chunk_length) ==
    filter_loop(all_splits, file_name, min_chunk_length, 1, {}, <<>>)

BatchIds(batch) == {batch[k].id : k \in 1..Len(batch)}

\* collection.upsert: insert or overwrite by id
upsert(collection, batch) ==
    [id \in DOMAIN collection \cup BatchIds(batch) |->
        IF id \in BatchIds(batch)
        THEN LET at == CHOOSE j \in 1..Len(batch) : batch[j].id = id
             IN  [document |-> batch[at].document, metadata |-> batch[at].metadata]
        ELSE collection[id]]

EmptyCollection == [id \in {} |-> 0]
NoCollections == [name \in {} |-> 0]

\* client.get_or_create_collection(name)
get_or_create_collection(client, name) ==
    IF name \in DOMAIN client THEN client
    ELSE [n \in DOMAIN client \cup {name} |->
            IF n = name THEN EmptyCollection ELSE client[n]]

\* get_vector_collection: always on the module's own PersistentClient
get_vector_collection(db) == get_or_create_collection(db, CollectionName)

Records(db) == IF CollectionName \in DOMAIN db THEN db[CollectionName] ELSE EmptyCollection

\* a message shown with st.success, st.warning, st.error or st.info
Msg(kind, file) == [kind |-> kind, file |-> file]
NoName == <<>>

\* Mutant: no try/except around the upsert, so a store failure propagates
add_to_vector_collection_uncaught(db, session_files, all_splits, file_name, outcome) ==
    LET batch == prepare_batch(all_splits, file_name, DefaultMinChunkLength)
    IN  [db |-> IF batch # <<>> /\ outcome = "ok"
                THEN [get_vector_collection(db) EXCEPT
                        ![CollectionName] = upsert(@, batch)]
                ELSE db,
         files |-> session_files,
         sent |-> IF outcome = "ok" THEN batch ELSE <<>>,
         raised |-> batch # <<>> /\ outcome # "ok",
         msgs |-> <<Msg(IF batch = <<>> THEN "all_filtered"
                        ELSE IF outcome = "ok" THEN "upsert_added"
                        ELSE "upsert_failed", file_name)>>]

\* Mutant: ids are numbered on from the number of records already stored
add_to_vector_collection_count_ids(db, session_files, all_splits, file_name, outcome) ==
    LET plain == prepare_batch(all_splits, file_name, DefaultMinChunkLength)
        count == Cardinality(DOMAIN Records(db))
        batch == [k \in 1..Len(plain) |->
                    [plain[k] EXCEPT
                        !.id = record_id(file_name, count + plain[k].metadata.chunk_id)]]
    IN  [db |-> IF batch # <<>> /\ outcome = "ok"
                THEN [get_vector_collection(db) EXCEPT
                        ![CollectionName] = upsert(@, batch)]
                ELSE db,
         files |-> session_files,
         sent |-> IF outcome = "ok" THEN batch ELSE <<>>,
         raised |-> FALSE,
         msgs |-> <<Msg(IF batch = <<>> THEN "all_filtered"
                        ELSE IF outcome = "ok" THEN "upsert_added"
                        ELSE "upsert_failed", file_name)>>]

\* add_to_vector_collection(all_splits, file_name): the store, the session list
\* and the messages afterwards.  outcome is what the vector store and the
\* embedding service do: "ok", "collection_error" (get_vector_collection
\* raises) or "upsert_error" (collection.upsert raises; nothing is written).
\* Both are caught by the except clause of lines 142-143: raised is FALSE.
add_to_vector_collection(db, session_files, all_splits, file_name, outcome) ==
    LET batch == prepare_batch(all_splits, file_name, DefaultMinChunkLength)
        same  == [db |-> db, files |-> session_files, sent |-> <<>>, raised |-> FALSE]
    IN  IF all_splits = <<>>
        THEN same @@ [msgs |-> <<Msg("no_valid_content", file_name)>>]
        ELSE IF batch = <<>>
        THEN same @@ [msgs |-> <<Msg("all_filtered", file_name)>>]
        ELSE IF outcome = "collection_error"
        THEN same @@ [msgs |-> <<Msg("upsert_failed", file_name)>>]
        ELSE IF outcome = "upsert_error"
        THEN [db |-> get_vector_collection(db), files |-> session_files, sent |-> <<>>,
              raised |-> FALSE, msgs |-> <<Msg("upsert_failed", file_name)>>]
        ELSE [db |-> [get_vector_collection(db) EXCEPT
                        ![CollectionName] = upsert(@, batch)],
              files |-> IF InList(file_name, session_files) THEN session_files
                        ELSE Append(session_files, file_name),
              sent |-> batch,
              raised |-> FALSE,
              msgs |-> <<Msg("upsert_added", file_name)>>]

-----------------------------------------------------------------------------
(* src/features/embedding_store.py: the query side *)

DefaultNResults == 10
DefaultTopK == 3

\* seq[:k]
py_slice_to(seq, k) ==
    IF k >= 0 THEN SubSeq(seq, 1, Min(k, Len(seq)))
    ELSE SubSeq(seq, 1, Max(0, Len(seq) + k))

\* the orders in which the store can rank a set of records by distance
Orders(ids) == {o \in [1..Cardinality(ids) -> ids] :
                    \A a, b \in 1..Cardinality(ids) : a # b => o[a] # o[b]}

\* query_collection(prompt, n_results): the store afterwards and
\* results["documents"][0]; order is the store's ranking of its records
query_collection(db, order, n_results) ==
    LET after == get_vector_collection(db)
        hits == py_slice_to(order, n_results)
    IN  [db |-> after,
         docs |-> [k \in 1..Len(hits) |->
                    [text |-> Records(after)[hits[k]].document,
                     source |-> Records(after)[hits[k]].metadata.source_file,
                     page |-> Records(after)[hits[k]].metadata.page]]]

\* Mutant: equal keys are put in front, so ties come out in reverse order
insert_desc_unstable(sorted, x, key) ==
    LET smaller == {j \in 1..Len(sorted) : key[sorted[j]] <= key[x]}
        pos == IF smaller = {} THEN Len(sorted) + 1
               ELSE CHOOSE j \in smaller : \A m \in smaller : j <= m
    IN  SubSeq(sorted, 1, pos - 1) \o <<x>> \o SubSeq(sorted, pos, Len(sorted))

\* insert x into a list sorted by descending key, after the elements whose
\* key is not smaller (the sort is stable)
insert_desc(sorted, x, key) ==
    LET smaller == {j \in 1..Len(sorted) : key[sorted[j]] < key[x]}
        pos == IF smaller = {} THEN Len(sorted) + 1
               ELSE CHOOSE j \in smaller : \A m \in smaller : j <= m
    IN  SubSeq(sorted, 1, pos - 1) \o <<x>> \o SubSeq(sorted, pos, Len(sorted))

\* sorted(items, key=..., reverse=True)
RECURSIVE sorted_desc(_, _)
sorted_desc(items, key) ==
    IF items = <<>> THEN <<>>
    ELSE insert_desc(sorted_desc(SubSeq(items, 1, Len(items) - 1), key),
                     items[Len(items)], key)

BlankLine == <<"\n", "\n">>

NoRanking == [text |-> <<>>, ids |-> <<>>, loaded |-> FALSE, invoked |-> FALSE,
              warned |-> FALSE, failed |-> FALSE]

\* Mutant: the prompt is tested without strip()
rerank_skips_unstripped(prompt, documents) == documents = <<>> \/ prompt = <<>>

\* line 175: the guard of re_rank_cross_encoders
rerank_skips(prompt, documents) == documents = <<>> \/ strip(prompt) = <<>>

\* re_rank_cross_encoders(prompt, documents, top_k).  encoder is what the
\* cross-encoder does: fails to load, fails to predict, or scores the pairs
\* (scores[n] is the score of documents[n-1] in Python's numbering).
\* ids are Python indices, from 0.
re_rank_cross_encoders(prompt, documents, top_k, encoder) ==
    IF rerank_skips(prompt, documents)
    THEN [NoRanking EXCEPT !.warned = TRUE]
    ELSE IF encoder.fails = "load"
    THEN [NoRanking EXCEPT !.loaded = TRUE, !.failed = TRUE]
    ELSE IF encoder.fails = "predict"
    THEN [NoRanking EXCEPT !.loaded = TRUE, !.invoked = TRUE, !.failed = TRUE]
    ELSE LET range == [n \in 1..Len(documents) |-> n - 1]
             key == [n \in 0..(Len(documents) - 1) |-> encoder.scores[n + 1]]
             ranked_indices == py_slice_to(sorted_desc(range, key), top_k)
             relevant_texts == [n \in 1..Len(ranked_indices) |->
                                    documents[ranked_indices[n] + 1]]
         IN  [text |-> join(BlankLine, relevant_texts), ids |-> ranked_indices,
              loaded |-> TRUE, invoked |-> TRUE, warned |-> FALSE, failed |-> FALSE]

-----------------------------------------------------------------------------
(* src/features/call_model.py *)

DefaultMaxContextChars == 12000

\* "\n\n[Context truncated due to length.]"
TruncationMarker ==
    <<"\n", "\n", "[", "C", "o", "n", "t", "e", "x", "t", " ",
      "t", "r", "u", "n", "c", "a", "t", "e", "d", " ", "d", "u", "e", " ",
      "t", "o", " ", "l", "e", "n", "g", "t", "h", ".", "]">>

\* Mutant: the budget test is >= instead of >
prepare_context_off_by_one(context, max_context_chars) ==
    IF Len(strip(context)) >= max_context_chars
    THEN py_slice_to(strip(context), max_context_chars) \o TruncationMarker
    ELSE strip(context)

\* lines 51-56: the context put into the user prompt
prepare_context(context, max_context_chars) ==
    LET stripped == strip(context)
    IN  IF Len(stripped) > max_context_chars
        THEN py_slice_to(stripped, max_context_chars) \o TruncationMarker
        ELSE stripped

ContentFragment == <<"o", "k", "\n">>
ErrorFragment == <<"L", "L", "M", " ", "e", "r", "r", "o", "r">>

\* the generator object call_llm(context, prompt, max_context_chars) returns;
\* nothing of its body has run yet
call_llm(context, max_context_chars) ==
    [pc |-> "created", context |-> context, max_context_chars |-> max_context_chars,
     sent |-> <<>>, chat_called |-> FALSE, yielded |-> <<>>, raised |-> FALSE]

\* Mutant: no except clause, the failure leaves the generator as an exception
on_failure_uncaught(g) == [g EXCEPT !.pc = "raised", !.raised = TRUE]

\* lines 83-84: the except clause yields one fragment carrying the error
on_failure(g) == [g EXCEPT !.pc = "yielded_error", !.yielded = Append(@, ErrorFragment)]

\* next(generator): the body runs to its next yield, to its end, or raises.
\* event is what the model service does at this point: "fragment" (a chunk
\* with done false), "done" (the final chunk, or the end of the stream) or
\* "error" (ollama.chat or the iteration of its response raises).
gen_next(g, event) ==
    LET started == IF g.pc = "created"
                   THEN [g EXCEPT !.sent = prepare_context(g.context, g.max_context_chars),
                                  !.chat_called = TRUE]
                   ELSE g
    IN  IF g.pc = "yielded_error" THEN [g EXCEPT !.pc = "ended"]
        ELSE IF g.pc \in {"ended", "raised"} THEN g
        ELSE IF event = "error" THEN on_failure(started)
        ELSE IF event = "fragment"
        THEN [started EXCEPT !.pc = "streaming", !.yielded = Append(@, ContentFragment)]
        ELSE [started EXCEPT !.pc = "ended"]

\* chunk.replace('\n', ' ')
replace_newlines(s) == [k \in 1..Len(s) |-> IF s[k] = "\n" THEN " " ELSE s[k]]

\* lines 186-191 of app.py: the consumer's loop over the generator, run to its
\* end; events is what the model service does, one event per next()
RECURSIVE consume(_, _, _)
consume(g, events, response_chunks) ==
    IF g.pc = "raised" THEN [gen |-> g, response_chunks |-> response_chunks,
                             completed |-> FALSE]
    ELSE IF g.pc = "ended" THEN [gen |-> g, response_chunks |-> response_chunks,
                                 completed |-> TRUE]
    ELSE LET event == IF events = <<>> THEN "done" ELSE Head(events)
             rest == IF events = <<>> \/ g.pc = "yielded_error" THEN events
                     ELSE Tail(events)
             after == gen_next(g, event)
         IN  IF Len(after.yielded) > Len(g.yielded)
             THEN consume(after, rest,
                    Append(response_chunks,
                        strip(replace_newlines(after.yielded[Len(after.yielded)]))))
             ELSE consume(after, rest, response_chunks)

final_response(response_chunks) == strip(join(<<" ">>, response_chunks))

-----------------------------------------------------------------------------
(* src/app.py: the script, one action per handler *)

NoQa == [asked |-> FALSE]

Unused == [pc |-> "unused"]

OthersUnused == sd = Unused /\ tf = Unused /\ md = Unused

\* a new session of the application, whatever the vector store holds
SessionInit ==
    /\ ephemeral = NoCollections
    /\ processed_files = <<>>
    /\ processed_hashes = {}
    /\ processed_json = NoFile
    /\ reasoning_outputs = [name \in {} |-> 0]
    /\ pc = "idle"
    /\ nfiles = 0
    /\ i = 0
    /\ reports = <<>>
    /\ messages = <<>>
    /\ qa = NoQa
    /\ asks = 0
    /\ uploads = 0
    /\ everRun = {}
    /\ assigned = {}
    /\ answers = <<>>

\* the application before anything was uploaded
AppInit == persistent = NoCollections /\ SessionInit

Init == AppInit /\ up = Unused /\ rr = Unused /\ llm = Unused /\ OthersUnused

fnVars == <<up, rr, llm, sd, tf, md>>
qaVars == <<qa, reasoning_outputs, asks, answers>>

\* client.list_collections() followed by delete_collection of each, on `client`
delete_all_collections(client) == NoCollections

\* lines 53-58: a new browser session of the running application
NewSession ==
    /\ pc = "idle"
    /\ processed_files' = load_processed_files(processed_json)
    /\ processed_hashes' = {}
    /\ messages' = <<>>
    /\ reports' = <<>>
    /\ UNCHANGED <<persistent, ephemeral, processed_json, pc, nfiles, i, uploads,
                   everRun, assigned, qaVars, fnVars>>

\* lines 96-116: the "Reset YMA Vector DB" button
Reset ==
    /\ pc = "idle"
    /\ ephemeral' = delete_all_collections(ephemeral)
    /\ processed_files' = <<>>
    /\ processed_hashes' = {}
    /\ processed_json' = NoFile
    /\ messages' = <<Msg("reset_success", NoName)>>
    /\ reports' = <<>>
    /\ UNCHANGED <<persistent, pc, nfiles, i, uploads, everRun, assigned, qaVars, fnVars>>

\* lines 119-126: "Process Files" with n uploaded files
ProcessStart(n) ==
    /\ pc = "idle"
    /\ uploads + n <= MaxUploads
    /\ pc' = "processing"
    /\ nfiles' = n
    /\ i' = 0
    /\ reports' = <<>>
    /\ messages' = <<Msg("processing", NoName)>>
    /\ UNCHANGED <<persistent, ephemeral, processed_files, processed_hashes,
                   processed_json, uploads, everRun, assigned, qaVars, fnVars>>

\* the ids of the records stored for a file name
IdsOf(db, name) ==
    {id \in DOMAIN Records(db) :
        Records(db)[id].metadata.source_file = normalize_filename(name)}

RunKey(file, stored) ==
    [name |-> file.name, digest |-> hash_file_content(file), stored |-> stored]

\* what one loop iteration did (history, kept until the next handler runs)
Report(file, outcome, batch, db_after) ==
    [name |-> file.name, digest |-> hash_file_content(file), outcome |-> outcome,
     ids |-> BatchIds(batch),
     ran_before |-> \E st \in BOOLEAN : RunKey(file, st) \in everRun,
     stored_before |-> RunKey(file, TRUE) \in everRun,
     before |-> IdsOf(persistent, file.name),
     after |-> IdsOf(db_after, file.name)]

\* lines 128-155: one iteration of the loop, on uploaded_files[i] = file.
\* doc is what process_document does ("ok" or "error"), store what the vector
\* store does in add_to_vector_collection.  The files of the batch are chosen
\* one iteration at a time.
ProcessFile(file, doc, store) ==
    /\ pc = "processing"
    /\ i < nfiles
    /\ uploads' = uploads + 1
    /\ LET file_hash == hash_file_content(file)
           normalized_name == normalize_filename(file.name)
           all_splits == process_document(file, doc)
           added == add_to_vector_collection(persistent, processed_files, all_splits,
                                             normalized_name, store)
       IN  IF file_hash \in processed_hashes
           THEN /\ messages' = Append(messages, Msg("already_processed", file.name))
                /\ reports' = Append(reports, Report(file, "skipped", <<>>, persistent))
                /\ everRun' = everRun \cup {RunKey(file, FALSE)}
                /\ i' = i + 1
                /\ UNCHANGED <<persistent, processed_files, processed_hashes,
                               processed_json, assigned, pc>>
           ELSE /\ processed_hashes' = processed_hashes \cup {file_hash}
                /\ IF all_splits = <<>>
                   THEN /\ messages' = IF doc = "error"
                                       THEN Append(messages, Msg("pdf_error", file.name))
                                       ELSE messages
                        /\ reports' = Append(reports,
                                Report(file, "no_splits", <<>>, persistent))
                        /\ everRun' = everRun \cup {RunKey(file, FALSE)}
                        /\ i' = i + 1
                        /\ UNCHANGED <<persistent, processed_files, processed_json,
                                       assigned, pc>>
                   ELSE IF added.raised
                   THEN \* the exception leaves the loop and ends the script run
                        /\ persistent' = added.db
                        /\ messages' = Append(messages,
                                Msg("uncaught_exception", file.name))
                        /\ reports' = Append(reports, Report(file, "raised", <<>>, added.db))
                        /\ everRun' = everRun \cup {RunKey(file, FALSE)}
                        /\ pc' = "idle"
                        /\ UNCHANGED <<processed_files, processed_json, assigned, i>>
                   ELSE /\ persistent' = added.db
                        /\ processed_json' = update_processed_files(processed_json, file.name)
                        /\ processed_files' = load_processed_files(processed_json')
                        /\ messages' = messages \o added.msgs
                        /\ reports' = Append(reports,
                                Report(file, added.msgs[1].kind, added.sent, added.db))
                        /\ everRun' = everRun \cup {RunKey(file, added.sent # <<>>)}
                        /\ assigned' = assigned \cup
                                {[id |-> added.sent[k].id, name |-> file.name,
                                  idx |-> added.sent[k].metadata.chunk_id] :
                                    k \in 1..Len(added.sent)}
                        /\ i' = i + 1
                        /\ pc' = pc
    /\ UNCHANGED <<ephemeral, nfiles, qaVars, fnVars>>

\* line 157: the loop is over
ProcessEnd ==
    /\ pc = "processing"
    /\ i = nfiles
    /\ pc' = "idle"
    /\ messages' = Append(messages, Msg("batch_success", NoName))
    /\ UNCHANGED <<persistent, ephemeral, processed_files, processed_hashes,
                   processed_json, nfiles, i, reports, uploads, everRun, assigned,
                   qaVars, fnVars>>

Next ==
    \/ NewSession
    \/ Reset
    \/ \E n \in 1..MaxBatch : ProcessStart(n)
    \/ \E file \in UploadedFiles :
          \/ ProcessFile(file, "error", "ok")
          \/ \E store \in {"ok", "collection_error", "upsert_error"} :
                ProcessFile(file, "ok", store)
    \/ ProcessEnd

Spec == Init /\ [][Next]_vars

-----------------------------------------------------------------------------
(* Claims about ingestion and reset, checked under Spec *)

ResetReported == messages = <<Msg("reset_success", NoName)>>

\* C1: once Reset has reported success, the vector store that upsert and query
\* use holds no collection and no record (a query returns no documents), and
\* the session file list, the persisted file list and the hash set are empty.
C1_ResetClearsAll ==
    ResetReported =>
        /\ DOMAIN persistent = {}
        /\ \A order \in Orders(DOMAIN Records(persistent)) :
                query_collection(persistent, order, DefaultNResults).docs = <<>>
        /\ processed_files = <<>>
        /\ load_processed_files(processed_json) = <<>>
        /\ processed_hashes = {}

\* C2 as stated: a loop iteration on a file (same name, same bytes) that an
\* earlier iteration already ran on leaves the number of records stored for
\* that file unchanged.
C2_RepeatKeepsCount ==
    \A k \in 1..Len(reports) :
        reports[k].ran_before =>
            Cardinality(reports[k].after) = Cardinality(reports[k].before)

\* C2 amended: a loop iteration on a file whose records an earlier iteration
\* upserted leaves the set of records stored for that file unchanged (it is
\* skipped, fails, or overwrites under the same ids); an iteration that does
\* write sends exactly the ids the file gets on every run.
C2_RepeatAfterStoreKeepsRecords ==
    \A k \in 1..Len(reports) :
        /\ reports[k].stored_before => reports[k].after = reports[k].before
        /\ reports[k].ids \subseteq reports[k].after
        /\ reports[k].ran_before /\ reports[k].outcome = "upsert_added" =>
                \A id \in reports[k].after \ reports[k].before : id \in reports[k].ids

\* C2 witness: a repeat of a stored file ran the upsert again (new session or
\* after Reset), overwriting its records
C2_Witness ==
    \E k \in 1..Len(reports) :
        /\ reports[k].stored_before
        /\ reports[k].outcome = "upsert_added"
        /\ reports[k].ids # {}

\* C3: no two distinct source chunks (another uploaded file name, or another
\* position in the file) are ever given the same record id.
C3_IdsTieToOneChunk ==
    \A a, b \in assigned :
        a.id = b.id => a.name = b.name /\ a.idx = b.idx

-----------------------------------------------------------------------------
(* SpecUpsert: add_to_vector_collection's filter on every small batch *)

UpFileName == <<"f">>
UpTexts == SeqsUpTo({" ", "x"}, MaxTextLen)
UpDocuments == {Document(t, [page |-> 0]) : t \in UpTexts}

UpInit ==
    /\ AppInit /\ rr = Unused /\ llm = Unused /\ OthersUnused
    /\ up \in [pc : {"call"}, all_splits : SeqsUpTo(UpDocuments, MaxSplits),
               min_chunk_length : 0..MaxTextLen, batch : {<<>>}]

\* lines 84-121 on up.all_splits
UpsertCall ==
    /\ up.pc = "call"
    /\ up' = [up EXCEPT !.pc = "returned",
                        !.batch = prepare_batch(up.all_splits, UpFileName,
                                                up.min_chunk_length)]
    /\ UNCHANGED <<appVars, rr, llm, sd, tf, md>>

SpecUpsert == UpInit /\ [][UpsertCall]_vars

TrimmedAt(k) == strip(up.all_splits[k].page_content)

\* C4: no chunk whose trimmed text is shorter than min_chunk_length is in the
\* upsert, and of the chunks with one trimmed text exactly one is, the first.
C4_FilterAndDedup ==
    up.pc = "returned" =>
        /\ \A n \in 1..Len(up.batch) :
                /\ Len(up.batch[n].document) >= up.min_chunk_length
                /\ up.batch[n].metadata.chunk_id + 1 \in 1..Len(up.all_splits)
                /\ up.batch[n].document = TrimmedAt(up.batch[n].metadata.chunk_id + 1)
        /\ \A k \in 1..Len(up.all_splits) :
                Len(TrimmedAt(k)) >= up.min_chunk_length =>
                    LET same == {n \in 1..Len(up.batch) : up.batch[n].document = TrimmedAt(k)}
                        first == CHOOSE j \in 1..k :
                                    /\ TrimmedAt(j) = TrimmedAt(k)
                                    /\ \A m \in 1..(j - 1) : TrimmedAt(m) # TrimmedAt(k)
                    IN  /\ Cardinality(same) = 1
                        /\ \A n \in same : up.batch[n].metadata.chunk_id = first - 1

\* C4 witness: a call with a too short chunk and two chunks of one trimmed
\* text, of which one record was made
C4_Witness ==
    /\ up.pc = "returned"
    /\ up.min_chunk_length >= 1
    /\ \E a, b, c \in 1..Len(up.all_splits) :
        /\ a < b
        /\ TrimmedAt(a) = TrimmedAt(b)
        /\ up.all_splits[a].page_content # up.all_splits[b].page_content
        /\ Len(TrimmedAt(a)) >= up.min_chunk_length
        /\ Len(TrimmedAt(c)) < up.min_chunk_length
        /\ Len(up.all_splits[c].page_content) >= up.min_chunk_length
    /\ Len(up.batch) = 1

-----------------------------------------------------------------------------
(* SpecRerank: re_rank_cross_encoders on every small call *)

Prompts == {<<>>, <<" ">>, <<"q">>, <<" ", "q", "\n">>}
RrTexts == {<<"x">>, <<"y">>}

Encoders(n) ==
    {[fails |-> f, scores |-> <<>>] : f \in {"load", "predict"}}
        \cup {[fails |-> "none", scores |-> sc] : sc \in [1..n -> 0..MaxScore]}

RrInit ==
    /\ AppInit /\ up = Unused /\ llm = Unused /\ OthersUnused
    /\ rr \in [pc : {"call"}, prompt : Prompts, documents : SeqsUpTo(RrTexts, MaxDocs),
               top_k : 0..MaxTopK, encoder : {[fails |-> "none", scores |-> <<>>]},
               result : {NoRanking}]

RerankCall(encoder) ==
    /\ rr.pc = "call"
    /\ rr' = [rr EXCEPT !.pc = "returned", !.encoder = encoder,
                        !.result = re_rank_cross_encoders(rr.prompt, rr.documents,
                                                          rr.top_k, encoder)]
    /\ UNCHANGED <<appVars, up, llm, sd, tf, md>>

RrNext == \E encoder \in Encoders(Len(rr.documents)) : RerankCall(encoder)

SpecRerank == RrInit /\ [][RrNext]_vars

RrEmptyInput == rr.documents = <<>> \/ \A k \in 1..Len(rr.prompt) : rr.prompt[k] \in Whitespace

\* C5: for an empty or whitespace-only prompt, or no candidates,
\* re_rank_cross_encoders returns ("", []) and neither loads nor invokes the
\* cross-encoder.
C5_EmptyInputShortCircuits ==
    (rr.pc = "returned" /\ RrEmptyInput) =>
        /\ rr.result.text = <<>>
        /\ rr.result.ids = <<>>
        /\ ~rr.result.loaded
        /\ ~rr.result.invoked

\* C5 witness: a whitespace-only prompt with candidates, returned
C5_Witness ==
    /\ rr.pc = "returned"
    /\ rr.prompt = <<" ">>
    /\ Len(rr.documents) = 2
    /\ rr.result.ids = <<>>

ScoreOf(idx) == rr.encoder.scores[idx + 1]

\* the result is the min(top_k, n) best indices, by descending score, ties in
\* retrieval order, and the context is their texts joined by a blank line
RrRanked ==
    LET ids == rr.result.ids
        n == Len(rr.documents)
    IN  /\ Len(ids) = Min(rr.top_k, n)
        /\ \A a \in 1..Len(ids) : ids[a] \in 0..(n - 1)
        /\ \A a, b \in 1..Len(ids) : a < b =>
                /\ ids[a] # ids[b]
                /\ ScoreOf(ids[a]) >= ScoreOf(ids[b])
                /\ ScoreOf(ids[a]) = ScoreOf(ids[b]) => ids[a] < ids[b]
        /\ \A a \in 1..Len(ids), other \in 0..(n - 1) :
                (\A b \in 1..Len(ids) : ids[b] # other) =>
                    \/ ScoreOf(other) < ScoreOf(ids[a])
                    \/ ScoreOf(other) = ScoreOf(ids[a]) /\ other > ids[a]
        /\ rr.result.text =
                join(BlankLine, [a \in 1..Len(ids) |-> rr.documents[ids[a] + 1]])

\* C6 as stated: for a non-empty prompt and n candidates the result is the
\* min(top_k, n) ranked indices and their joined texts.
C6_AlwaysRanked ==
    (rr.pc = "returned" /\ ~RrEmptyInput) =>
        RrRanked

\* C6 amended: for a non-empty prompt and n candidates, when the cross-encoder
\* loads and scores the pairs the result is the min(top_k, n) best indices in
\* descending score, ties in retrieval order, with their texts joined by a
\* blank line; when loading or scoring raises the result is ("", []).
C6_RankedUnlessEncoderFails ==
    (rr.pc = "returned" /\ ~RrEmptyInput) =>
        IF rr.encoder.fails = "none"
        THEN RrRanked
        ELSE rr.result.text = <<>> /\ rr.result.ids = <<>>

\* C6 witness: three candidates with a tie, top_k = 2, scored
C6_Witness ==
    /\ rr.pc = "returned"
    /\ ~RrEmptyInput
    /\ rr.encoder.fails = "none"
    /\ Len(rr.documents) = 3
    /\ rr.top_k = 2
    /\ rr.encoder.scores = <<0, 1, 1>>
    /\ rr.result.ids = <<1, 2>>

-----------------------------------------------------------------------------
(* SpecLLM: a call_llm generator and the loop that consumes it *)

Contexts == SeqsUpTo({" ", "x"}, MaxContextLen)

LlmInit ==
    /\ AppInit /\ up = Unused /\ rr = Unused /\ OthersUnused
    /\ \E context \in Contexts, budget \in 0..MaxBudget :
        llm = [gen |-> call_llm(context, budget), response_chunks |-> <<>>,
               consumer |-> "looping", failures |-> 0]

\* one pass of `for chunk in response_stream`: next() on the generator
LlmNextCall(event) ==
    /\ llm # Unused
    /\ llm.consumer = "looping"
    /\ llm.gen.pc = "yielded_error" => event = "done"
    /\ event = "fragment" => Len(llm.gen.yielded) < MaxFragments
    /\ LET after == gen_next(llm.gen, event)
       IN  llm' = [gen |-> after,
                   response_chunks |->
                        IF Len(after.yielded) > Len(llm.gen.yielded)
                        THEN Append(llm.response_chunks,
                                strip(replace_newlines(after.yielded[Len(after.yielded)])))
                        ELSE llm.response_chunks,
                   consumer |-> IF after.pc = "raised" THEN "crashed"
                                ELSE IF after.pc = "ended" THEN "done"
                                ELSE "looping",
                   failures |-> IF event = "error" THEN llm.failures + 1
                                ELSE llm.failures]
    /\ UNCHANGED <<appVars, up, rr, sd, tf, md>>

LlmNext == \E event \in {"fragment", "done", "error"} : LlmNextCall(event)

SpecLLM == LlmInit /\ [][LlmNext]_vars

EndsWith(s, suffix) ==
    Len(s) >= Len(suffix) /\ SubSeq(s, Len(s) - Len(suffix) + 1, Len(s)) = suffix

\* C7: the context sent has at most max_context_chars characters plus the
\* marker; the marker is appended exactly when the trimmed context is longer
\* than the budget, and otherwise the trimmed context is sent unchanged.
C7_ContextBudget ==
    (llm # Unused /\ llm.gen.chat_called) =>
        LET trimmed == strip(llm.gen.context)
            budget == llm.gen.max_context_chars
            sent == llm.gen.sent
        IN  /\ Len(sent) <= budget + Len(TruncationMarker)
            /\ EndsWith(sent, TruncationMarker) <=> Len(trimmed) > budget
            /\ Len(trimmed) <= budget => sent = trimmed
            /\ Len(trimmed) > budget =>
                    sent = SubSeq(trimmed, 1, budget) \o TruncationMarker

\* C7 witness: a context of three characters sent under a budget of two
C7_Witness ==
    /\ llm # Unused
    /\ llm.gen.chat_called
    /\ llm.gen.context = <<"x", "x", "x">>
    /\ llm.gen.max_context_chars = 2
    /\ llm.gen.sent = <<"x", "x">> \o TruncationMarker

ErrorsYielded(g) == {k \in 1..Len(g.yielded) : g.yielded[k] = ErrorFragment}

\* C8: call_llm never raises to its consumer; when the model call fails,
\* before the first fragment or in mid-stream, the generator yields exactly
\* one error fragment, as its last one, and then ends, so the consumer's loop
\* completes.
C8_FailureIsOneFragment ==
    llm # Unused =>
        /\ ~llm.gen.raised
        /\ llm.consumer # "crashed"
        /\ llm.failures <= 1
        /\ llm.failures = 0 => ErrorsYielded(llm.gen) = {}
        /\ llm.failures = 1 =>
                /\ ErrorsYielded(llm.gen) = {Len(llm.gen.yielded)}
                /\ llm.gen.pc \in {"yielded_error", "ended"}
        /\ llm.consumer = "done" <=> llm.gen.pc = "ended"
        /\ Len(llm.response_chunks) = Len(llm.gen.yielded)

\* C8 witness: the stream failed after one fragment and the consumer's loop
\* has completed with two chunks
C8_Witness ==
    /\ llm # Unused
    /\ llm.failures = 1
    /\ llm.consumer = "done"
    /\ llm.gen.yielded = <<ContentFragment, ErrorFragment>>
    /\ Len(llm.response_chunks) = 2

-----------------------------------------------------------------------------
(* SpecQA: the question-answering handler, on every store ingestion builds *)

\* the vector store after the files were processed, one after the other, by
\* the loop of lines 128-155 with every step succeeding
RECURSIVE ingest(_, _)
ingest(db, files) ==
    IF files = <<>> THEN db
    ELSE LET all_splits == process_document(Head(files), "ok")
             added == add_to_vector_collection(db, <<>>, all_splits,
                            normalize_filename(Head(files).name), "ok")
         IN  ingest(IF all_splits = <<>> THEN db ELSE added.db, Tail(files))

QaInit ==
    /\ \E files \in SeqsUpTo(UploadedFiles, MaxStored) :
            persistent = ingest(NoCollections, files)
    /\ SessionInit
    /\ up = Unused /\ rr = Unused /\ llm = Unused /\ OthersUnused

AskPrompts == {<<>>, <<" ">>, <<"q">>}

\* what the cross-encoder can do with n pairs: fail, or score them all equal,
\* or score the later ones higher
AskEncoders(n) ==
    {[fails |-> f, scores |-> <<>>] : f \in {"load", "predict"}}
        \cup {[fails |-> "none", scores |-> [k \in 1..n |-> 0]],
              [fails |-> "none", scores |-> [k \in 1..n |-> Min(k - 1, MaxScore)]]}

\* what the model service can do over one answer
AskEvents ==
    {ev \in SeqsUpTo({"fragment", "error"}, MaxFragments) :
        \A k \in 1..(Len(ev) - 1) : ev[k] # "error"}

\* the files save_reasoning_to_file (lines 37-47, with update_reasoning_log,
\* lines 17-28) and save_reasoning_metadata write
save_reasoning(outputs, file_name, prompt, reasoning, sources) ==
    LET safe_name == normalize_filename(file_name)
        written == [txt |-> reasoning,
                    json |-> [file |-> file_name, normalized_file |-> safe_name,
                              prompt |-> prompt, sources_used |-> sources,
                              reasoning |-> reasoning],
                    log |-> file_name]
    IN  [n \in DOMAIN outputs \cup {safe_name} |->
            IF n = safe_name THEN written ELSE outputs[n]]

\* Mutant: the safeguard on the re-ranked context is dropped
has_context_unguarded(relevant_text) == TRUE

\* line 183: if relevant_text.strip()
has_context(relevant_text) == strip(relevant_text) # <<>>

\* lines 175-210 after a query that returned: what the handler does with docs
answer(outputs, prompt, docs, encoder, events) ==
    LET context == [k \in 1..Len(docs) |-> docs[k].text]
        ranked == re_rank_cross_encoders(prompt, context, DefaultTopK, encoder)
        stream == consume(call_llm(ranked.text, DefaultMaxContextChars), events, <<>>)
        response == final_response(stream.response_chunks)
        base == [asked |-> TRUE, prompt |-> prompt, queried |-> TRUE, raised |-> FALSE,
                 ndocs |-> Len(docs), reranked |-> FALSE, context |-> <<>>,
                 generated |-> FALSE, completed |-> FALSE, saved |-> FALSE,
                 warnings |-> <<>>, outputs_before |-> outputs]
    IN  IF docs = <<>>
        THEN [outputs |-> outputs,
              qa |-> [base EXCEPT !.warnings = <<"no_documents">>]]
        ELSE IF ~has_context(ranked.text)
        THEN [outputs |-> outputs,
              qa |-> [base EXCEPT !.reranked = TRUE, !.context = ranked.text,
                                  !.warnings = <<"no_context">>]]
        ELSE IF ~stream.completed
        THEN [outputs |-> outputs,
              qa |-> [base EXCEPT !.reranked = TRUE, !.context = ranked.text,
                                  !.generated = TRUE, !.raised = TRUE]]
        ELSE [outputs |-> save_reasoning(outputs, docs[1].source, prompt, response,
                                         [k \in 1..Len(docs) |-> docs[k].source]),
              qa |-> [base EXCEPT !.reranked = TRUE, !.context = ranked.text,
                                  !.generated = TRUE, !.completed = TRUE,
                                  !.saved = TRUE]]

\* lines 175-210: the "Ask YMA" button with prompt in the text area.  query is
\* what the store does in query_collection ("ok" or "error"), order its
\* ranking of the records, encoder and events what the two models do.
Ask(prompt, query, order, encoder, events) ==
    /\ pc = "idle"
    /\ asks < MaxAsks
    /\ asks' = asks + 1
    /\ IF prompt = <<>>
       THEN /\ qa' = [asked |-> TRUE, prompt |-> prompt, queried |-> FALSE,
                      raised |-> FALSE, ndocs |-> 0, reranked |-> FALSE,
                      context |-> <<>>, generated |-> FALSE, completed |-> FALSE,
                      saved |-> FALSE, warnings |-> <<>>,
                      outputs_before |-> reasoning_outputs]
            /\ UNCHANGED <<persistent, reasoning_outputs, answers>>
       ELSE IF query = "error"
       THEN /\ qa' = [asked |-> TRUE, prompt |-> prompt, queried |-> TRUE,
                      raised |-> TRUE, ndocs |-> 0, reranked |-> FALSE,
                      context |-> <<>>, generated |-> FALSE, completed |-> FALSE,
                      saved |-> FALSE, warnings |-> <<>>,
                      outputs_before |-> reasoning_outputs]
            /\ UNCHANGED <<persistent, reasoning_outputs, answers>>
       ELSE LET results == query_collection(persistent, order, DefaultNResults)
                done == answer(reasoning_outputs, prompt, results.docs, encoder, events)
            IN  /\ persistent' = results.db
                /\ reasoning_outputs' = done.outputs
                /\ qa' = done.qa
                /\ answers' =
                        IF done.qa.saved
                        THEN LET file == results.docs[1].source
                             IN  Append(answers,
                                    [prompt |-> prompt, file |-> file,
                                     reasoning |-> done.outputs[normalize_filename(file)].txt])
                        ELSE answers
    /\ UNCHANGED <<ephemeral, processed_files, processed_hashes, processed_json, pc,
                   nfiles, i, reports, messages, uploads, everRun, assigned, fnVars>>

AskNext ==
    \E prompt \in AskPrompts, query \in {"ok", "error"},
       order \in Orders(DOMAIN Records(persistent)),
       encoder \in AskEncoders(Min(Cardinality(DOMAIN Records(persistent)), DefaultNResults)),
       events \in AskEvents :
        \* the models are not reached when the prompt is blank or the query
        \* fails: one choice of what they would do is enough
        /\ (strip(prompt) = <<>> \/ query = "error") =>
                (encoder.fails = "load" /\ events = <<>>)
        /\ Ask(prompt, query, order, encoder, events)

SpecQA == QaInit /\ [][AskNext]_vars

\* C9: call_llm is invoked only after a query that returned at least one
\* document and a re-ranking that produced non-blank context; when the query
\* returns no document, or the re-ranked context is blank, the handler shows a
\* warning, does not invoke call_llm and writes no reasoning record.
C9_GenerationOnlyWithContext ==
    qa.asked =>
        /\ qa.generated =>
                /\ qa.queried
                /\ qa.ndocs > 0
                /\ qa.reranked
                /\ \E k \in 1..Len(qa.context) : qa.context[k] \notin Whitespace
        /\ (qa.queried /\ ~qa.raised
                /\ (qa.ndocs = 0 \/ \A k \in 1..Len(qa.context) : qa.context[k] \in Whitespace)) =>
                /\ Len(qa.warnings) = 1
                /\ ~qa.generated
                /\ ~qa.saved
                /\ reasoning_outputs = qa.outputs_before
        /\ qa.saved => qa.generated
        /\ ~qa.saved => reasoning_outputs = qa.outputs_before

\* C9 witness: a question on a store with two records whose re-ranking
\* failed, so that the handler warned and generated nothing
C9_Witness ==
    /\ qa.asked
    /\ Cardinality(DOMAIN Records(persistent)) = 2
    /\ qa.prompt = <<"q">>
    /\ qa.ndocs > 0
    /\ qa.reranked
    /\ qa.context = <<>>
    /\ qa.warnings = <<"no_context">>
    /\ ~qa.generated

\* C11 (question answering): no failure of an external step escapes the
\* handler as an uncaught exception; the run reaches its normal end.
C11_NoUncaughtException == qa.asked => ~qa.raised

\* C13: the reasoning records are an append-only log: one persisted record
\* per question answered, and every answered question's record is still there.
C13_AppendOnlyLog ==
    /\ Cardinality(DOMAIN reasoning_outputs) = Len(answers)
    /\ \A k \in 1..Len(answers) :
            \E n \in DOMAIN reasoning_outputs :
                /\ reasoning_outputs[n].json.prompt = answers[k].prompt
                /\ reasoning_outputs[n].json.file = answers[k].file
                /\ reasoning_outputs[n].txt = answers[k].reasoning

-----------------------------------------------------------------------------
(* Claims about the processed-file history and the hash set, under Spec *)

\* C16: a file name is in the persisted processed-file history only if a run
\* on a file of that name upserted at least one chunk; a file whose chunks
\* were all filtered out or whose upsert failed is not listed.
C16_HistoryOnlyIfStored ==
    \A k \in 1..Len(load_processed_files(processed_json)) :
        \E run \in everRun :
            /\ run.name = load_processed_files(processed_json)[k]
            /\ run.stored

\* C17: a content hash is in the session's processed-hash set only if that
\* file was ingested successfully, and no file is skipped as already
\* processed unless a run stored it.
C17_HashOnlyIfIngested ==
    /\ \A h \in processed_hashes :
            \E run \in everRun : run.digest = h /\ run.stored
    /\ \A k \in 1..Len(reports) :
            reports[k].outcome = "skipped" => reports[k].stored_before

-----------------------------------------------------------------------------
(* SpecSplit: ScientificTextSplitter.split_documents, run twice on one input *)

\* the subsequence of s at the positions in keep, in order
AtPositions(s, keep) ==
    LET nth(n) == CHOOSE k \in keep : Cardinality({j \in keep : j < k}) = n - 1
    IN  [n \in 1..Cardinality(keep) |-> s[nth(n)]]

\* line 97: re.sub(r'\n+', '\n', text)
collapse_newlines(text) ==
    AtPositions(text, {k \in 1..Len(text) :
                        ~(text[k] = "\n" /\ k > 1 /\ text[k - 1] = "\n")})

\* line 98: re.sub(r'\s{2,}', ' ', text): every run of two or more whitespace
\* characters becomes one space
collapse_spaces(text) ==
    LET ws(k) == k \in 1..Len(text) /\ text[k] \in Whitespace
        in_run(k) == ws(k) /\ (ws(k - 1) \/ ws(k + 1))
        keep == {k \in 1..Len(text) : ~(in_run(k) /\ ws(k - 1))}
        out == [k \in 1..Len(text) |-> IF in_run(k) THEN " " ELSE text[k]]
    IN  AtPositions(out, keep)

\* line 99: re.sub(r'^(\d{1,3}\s)', '', text, flags=re.MULTILINE): one to
\* three digits and the whitespace character after them, at the start of a line
strip_line_numbers(text) ==
    LET digit(k) == k \in 1..Len(text) /\ InList(text[k], DigitChars)
        line_start(k) == k = 1 \/ text[k - 1] = "\n"
        digits_from(k) == IF ~digit(k) THEN 0
                          ELSE IF ~digit(k + 1) THEN 1
                          ELSE IF ~digit(k + 2) THEN 2
                          ELSE IF ~digit(k + 3) THEN 3 ELSE 4
        matched(p) == /\ line_start(p)
                      /\ digits_from(p) \in 1..3
                      /\ p + digits_from(p) <= Len(text)
                      /\ text[p + digits_from(p)] \in Whitespace
        removed == {k \in 1..Len(text) :
                        \E p \in 1..k : matched(p) /\ k <= p + digits_from(p)}
    IN  AtPositions(text, (1..Len(text)) \ removed)

\* _preprocess_text (lines 94-101).  The patterns of lines 96 and 100 (figure
\* references, a References or Bibliography section) need letters that the
\* page texts below do not have and match nothing in them.
preprocess_text(text) ==
    strip(strip_line_numbers(collapse_spaces(collapse_newlines(text))))

\* self.split_text(cleaned) of the library base class: the text cut into
\* consecutive pieces at the positions in cuts (a cut at k ends a piece after
\* the k-th character); the library decides the cuts from the text alone
split_text(text, cuts) ==
    LET ends == {k \in cuts : k < Len(text)} \cup {Len(text)}
        first(e) == IF \E c \in ends : c < e
                    THEN 1 + CHOOSE c \in ends : c < e /\ \A d \in ends : d < e => d <= c
                    ELSE 1
        nth(n) == CHOOSE e \in ends : Cardinality({d \in ends : d < e}) = n - 1
    IN  IF text = <<>> THEN <<>>
        ELSE [n \in 1..Cardinality(ends) |-> SubSeq(text, first(nth(n)), nth(n))]

\* Mutant: every chunk is kept, blank or not
keeps_chunk_always(chunk) == TRUE

\* line 90: if chunk.strip()
keeps_chunk(chunk) == strip(chunk) # <<>>

\* lines 85-92 for the pages from the k-th on; metadata is the page's own
\* metadata object, named by the page's number
RECURSIVE split_pages(_, _, _)
split_pages(documents, lib, k) ==
    IF k > Len(documents) THEN <<>>
    ELSE LET cleaned == preprocess_text(documents[k].page_content)
             splits == split_text(cleaned, lib[cleaned])
             kept == SelectSeq(splits, keeps_chunk)
         IN  [n \in 1..Len(kept) |-> Document(kept[n], documents[k].metadata)]
                \o split_pages(documents, lib, k + 1)

PageTexts == SeqsUpTo({" ", "\n", "1", "x"}, MaxPageLen)
OtherPage == <<"x", " ", "\n", "x">>

\* the inputs: one page, or that page before or after a second one
SplitInputs ==
    LET page(text, n) == Document(text, [page |-> n])
    IN  UNION {{<<page(t, 0)>>, <<page(t, 0), page(OtherPage, 1)>>,
                <<page(OtherPage, 0), page(t, 1)>>} : t \in PageTexts}

\* what the library can do with the cleaned texts of the input
Libraries(documents) ==
    LET texts == {preprocess_text(documents[k].page_content) : k \in 1..Len(documents)}
    IN  {lib \in [texts -> SUBSET (1..MaxPageLen)] :
            \A t \in texts : \A c \in lib[t] : c < Len(t)}

SplitInit ==
    /\ AppInit /\ up = Unused /\ rr = Unused /\ llm = Unused
    /\ tf = Unused /\ md = Unused
    /\ \E documents \in SplitInputs : \E lib \in Libraries(documents) :
            sd = [pc |-> "first", documents |-> documents, lib |-> lib,
                  first |-> <<>>, second |-> <<>>]

\* text_splitter.split_documents(raw_docs), a first time
SplitFirst ==
    /\ sd.pc = "first"
    /\ sd' = [sd EXCEPT !.pc = "second",
                        !.first = split_pages(sd.documents, sd.lib, 1)]
    /\ UNCHANGED <<appVars, up, rr, llm, tf, md>>

\* and a second time on the same input
SplitSecond ==
    /\ sd.pc = "second"
    /\ sd' = [sd EXCEPT !.pc = "done",
                        !.second = split_pages(sd.documents, sd.lib, 1)]
    /\ UNCHANGED <<appVars, up, rr, llm, tf, md>>

SplitNext == SplitFirst \/ SplitSecond

SpecSplit == SplitInit /\ [][SplitNext]_vars

NonBlank(chunks) ==
    \A n \in 1..Len(chunks) :
        \E k \in 1..Len(chunks[n].page_content) :
            chunks[n].page_content[k] \notin Whitespace

-----------------------------------------------------------------------------
(* SpecTemp: the temporary files of extract_figures and process_document *)

NoPath == "None"
FiguresPdf == "extract_figures.pdf"     \* the scratch copy of extract_figures
DocumentPdf == "process_document.pdf"   \* the scratch copy of process_document
ImagePng == "image.png"                 \* a per-image file of extract_figures

\* the uploaded PDF as extract_figures sees it: the number of images of each page
PdfShapes == SeqsUpTo(0..MaxImages, MaxPdfPages)

TfInit ==
    /\ AppInit /\ up = Unused /\ rr = Unused /\ llm = Unused
    /\ sd = Unused /\ md = Unused
    /\ \E fn \in {"extract_figures", "process_document"}, pages \in PdfShapes :
        tf = [fn |-> fn,
              pc |-> IF fn = "extract_figures" THEN "ef_create" ELSE "pd_create",
              pages |-> pages,
              fs |-> {},                 \* the temporary files that exist
              created |-> {},            \* history: the temporary files ever created
              temp_pdf_path |-> NoPath,  \* extract_figures' variable
              temp_path |-> NoPath,      \* process_document's variable ("None": unbound)
              page |-> 1, image |-> 1,
              figures |-> <<>>,
              msgs |-> <<>>]

\* the position of the first image at or after (page, image), or the end
RECURSIVE next_image(_, _, _)
next_image(pages, page, image) ==
    IF page > Len(pages) THEN [page |-> page, image |-> 1]
    ELSE IF image <= pages[page] THEN [page |-> page, image |-> image]
    ELSE next_image(pages, page + 1, 1)

\* extract_figures' finally clause (lines 153-158) and its return, to the
\* caller when process_document made the call (line 40)
ef_exit(t) ==
    [t EXCEPT !.fs = IF t.temp_pdf_path # NoPath THEN @ \ {t.temp_pdf_path} ELSE @,
              !.pc = IF t.fn = "process_document" THEN "pd_split" ELSE "returned"]

ef_warn(t) == [t EXCEPT !.msgs = Append(@, "figure_extraction_failed")]

\* lines 133-135: the scratch copy is created and written.  outcome:
\* "create_error" (NamedTemporaryFile raises), "write_error" (tmp.write
\* raises: the file exists, temp_pdf_path is still None) or "ok"
EfCreate(outcome) ==
    /\ tf.pc = "ef_create"
    /\ tf' = IF outcome = "create_error" THEN ef_exit(ef_warn(tf))
             ELSE IF outcome = "write_error"
             THEN ef_exit(ef_warn([tf EXCEPT !.fs = @ \cup {FiguresPdf},
                                             !.created = @ \cup {FiguresPdf}]))
             ELSE [tf EXCEPT !.fs = @ \cup {FiguresPdf},
                             !.created = @ \cup {FiguresPdf},
                             !.temp_pdf_path = FiguresPdf,
                             !.pc = "ef_open"]
    /\ UNCHANGED <<appVars, up, rr, llm, sd, md>>

\* line 137: PdfReader(temp_pdf_path)
EfOpen(outcome) ==
    /\ tf.pc = "ef_open"
    /\ tf' = IF outcome = "error" THEN ef_exit(ef_warn(tf))
             ELSE LET at == next_image(tf.pages, 1, 1)
                  IN  [tf EXCEPT !.pc = "ef_images", !.page = at.page, !.image = at.image]
    /\ UNCHANGED <<appVars, up, rr, llm, sd, md>>

\* lines 139-150: one embedded image.  Its file is created with
\* NamedTemporaryFile's default delete=True and is gone when the with block
\* is left, normally, by continue or by an exception.
EfImage(outcome) ==
    /\ tf.pc = "ef_images"
    /\ tf.page <= Len(tf.pages)
    /\ LET made == [tf EXCEPT !.created = @ \cup {ImagePng}]
           at == next_image(tf.pages, tf.page, tf.image + 1)
           on == [made EXCEPT !.page = at.page, !.image = at.image]
       IN  tf' = IF outcome = "write_error" THEN ef_exit(ef_warn(made))
                 ELSE IF outcome \in {"decode_error", "ocr_error"} THEN on
                 ELSE [on EXCEPT !.figures = Append(@, [page |-> tf.page])]
    /\ UNCHANGED <<appVars, up, rr, llm, sd, md>>

\* the loops are over: finally, return figures
EfFinish ==
    /\ tf.pc = "ef_images"
    /\ tf.page > Len(tf.pages)
    /\ tf' = ef_exit(tf)
    /\ UNCHANGED <<appVars, up, rr, llm, sd, md>>

\* process_document's except and finally clauses (lines 54-61) and its return:
\* os.unlink(temp_path), where an unbound temp_path is passed over
pd_exit(t) ==
    [t EXCEPT !.fs = IF t.temp_path # NoPath THEN @ \ {t.temp_path} ELSE @,
              !.pc = "returned"]

pd_error(t) == [t EXCEPT !.msgs = Append(@, "pdf_error")]

\* lines 24-26 of document_loader.py: the scratch copy is created and written
PdCreate(outcome) ==
    /\ tf.pc = "pd_create"
    /\ tf' = IF outcome = "create_error" THEN pd_exit(pd_error(tf))
             ELSE IF outcome = "write_error"
             THEN pd_exit(pd_error([tf EXCEPT !.fs = @ \cup {DocumentPdf},
                                              !.created = @ \cup {DocumentPdf}]))
             ELSE [tf EXCEPT !.fs = @ \cup {DocumentPdf},
                             !.created = @ \cup {DocumentPdf},
                             !.temp_path = DocumentPdf,
                             !.pc = "pd_load"]
    /\ UNCHANGED <<appVars, up, rr, llm, sd, md>>

\* lines 28-40: the PDF is loaded and cleaned, metadata and structure are
\* read from memory, and extract_figures is called
PdLoad(outcome) ==
    /\ tf.pc = "pd_load"
    /\ tf' = IF outcome = "error" THEN pd_exit(pd_error(tf))
             ELSE [tf EXCEPT !.pc = "ef_create"]
    /\ UNCHANGED <<appVars, up, rr, llm, sd, md>>

\* lines 43-52 and 57-61: the chunks are made and returned
PdFinish ==
    /\ tf.pc = "pd_split"
    /\ tf' = pd_exit(tf)
    /\ UNCHANGED <<appVars, up, rr, llm, sd, md>>

TfNext ==
    \/ \E outcome \in {"ok", "create_error", "write_error"} : EfCreate(outcome)
    \/ \E outcome \in {"ok", "error"} : EfOpen(outcome)
    \/ \E outcome \in {"ok", "write_error", "decode_error", "ocr_error"} : EfImage(outcome)
    \/ EfFinish
    \/ \E outcome \in {"ok", "create_error", "write_error"} : PdCreate(outcome)
    \/ \E outcome \in {"ok", "error"} : PdLoad(outcome)
    \/ PdFinish

SpecTemp == TfInit /\ [][TfNext]_vars

\* C14: when extract_figures or process_document returns, none of the
\* temporary files it created exists any more, on every exit path.
C14_TempFilesDeleted ==
    (tf # Unused /\ tf.pc = "returned") => tf.fs = {}

-----------------------------------------------------------------------------
(* SpecMeta: add_to_vector_collection on chunks whose metadata are objects.  *)
(* split_documents builds every chunk of a page with metadata=doc.metadata   *)
(* (document_loader.py line 91).  Whether the chunk then holds that very     *)
(* dict or a copy of it is decided by the Document class of the installed    *)
(* library, not by this repository: both are modelled (aliased).             *)

\* the dict a chunk's metadata attribute refers to
meta_ref(aliased, k, page) ==
    IF aliased THEN [of |-> "page", n |-> page] ELSE [of |-> "chunk", n |-> k]

NoHeadingsFound ==
    <<"N", "o", " ", "h", "e", "a", "d", "i", "n", "g", "s", " ", "f", "o", "u", "n", "d">>

\* f"Level {heading['level']}: {heading['heading']}"
heading_line(heading) ==
    <<"L", "e", "v", "e", "l", " ">> \o str_int(heading.level) \o <<":", " ">>
        \o heading.heading

\* a headings value is a list of heading dicts or a str
HeadingList(items) == [type |-> "list", items |-> items, text |-> <<>>]
HeadingStr(text) == [type |-> "str", items |-> <<>>, text |-> text]

\* Mutant: a headings value that is already a string is left as it is
convert_headings_lenient(value) ==
    IF value.type = "str"
    THEN [raised |-> FALSE, value |-> value]
    ELSE [raised |-> FALSE,
          value |-> IF value.items = <<>> THEN HeadingStr(NoHeadingsFound)
                    ELSE HeadingStr(join(<<"\n">>,
                            [n \in 1..Len(value.items) |-> heading_line(value.items[n])]))]

\* lines 98-104: the headings value is replaced by a string.  A non-empty str
\* is iterated character by character and heading['level'] on a character
\* raises TypeError.
convert_headings(value) ==
    IF value.type = "str"
    THEN IF value.text = <<>>
         THEN [raised |-> FALSE, value |-> HeadingStr(NoHeadingsFound)]
         ELSE [raised |-> TRUE, value |-> value]
    ELSE [raised |-> FALSE,
          value |-> IF value.items = <<>> THEN HeadingStr(NoHeadingsFound)
                    ELSE HeadingStr(join(<<"\n">>,
                            [n \in 1..Len(value.items) |-> heading_line(value.items[n])]))]

\* lines 87-121 on metadata objects: heap maps a reference to its dict, batch
\* holds the text, the id and the reference appended to documents, ids and
\* metadatas.  raised: an exception left the loop (it is outside the try
\* block of line 127).
RECURSIVE metadata_loop(_, _, _, _, _, _, _)
metadata_loop(all_splits, file_name, min_chunk_length, k, seen_chunks, heap, batch) ==
    IF k > Len(all_splits) THEN [heap |-> heap, batch |-> batch, raised |-> FALSE]
    ELSE
        LET split == all_splits[k]
            idx == k - 1
            text == strip(split.page_content)
            converted == convert_headings(heap[split.metadata].headings)
        IN  IF Len(text) < min_chunk_length \/ hash(text) \in seen_chunks
            THEN metadata_loop(all_splits, file_name, min_chunk_length, k + 1,
                               seen_chunks, heap, batch)
            ELSE IF converted.raised
            THEN [heap |-> heap, batch |-> batch, raised |-> TRUE]
            ELSE metadata_loop(all_splits, file_name, min_chunk_length, k + 1,
                    seen_chunks \cup {hash(text)},
                    [heap EXCEPT ![split.metadata] =
                        [@ EXCEPT !.headings = converted.value,
                                  !.source_file = file_name,
                                  !.chunk_id = idx,
                                  !.text_length = Len(text)]],
                    Append(batch, [id |-> record_id(file_name, idx),
                                   document |-> text,
                                   metadata |-> split.metadata]))

\* lines 127-133: what collection.upsert is given; the metadatas are the
\* dicts as they are when the loop is over
upsert_arguments(done) ==
    [n \in 1..Len(done.batch) |->
        [id |-> done.batch[n].id,
         document |-> done.batch[n].document,
         metadata |-> done.heap[done.batch[n].metadata]]]

MdMinChunkLength == 1
MdTexts == {<<" ">>, <<"x">>, <<"x", " ">>, <<"y">>}
MdHeadings == {HeadingList(<<>>), HeadingList(<<[level |-> 1, heading |-> <<"1", ".", "a">>]>>)}

\* the chunks process_document returns: the k-th has its text, its page and
\* the reference to its metadata
MdChunks(texts, pages, aliased) ==
    [k \in 1..Len(texts) |->
        [page_content |-> texts[k], page |-> pages[k],
         metadata |-> meta_ref(aliased, k, pages[k])]]

\* the dicts behind the chunks, as process_document leaves them (lines 47-50)
MdHeap(all_splits, headings) ==
    [ref \in {all_splits[k].metadata : k \in 1..Len(all_splits)} |->
        [headings |-> headings, source_file |-> <<>>, chunk_id |-> -1,
         text_length |-> -1]]

MdInit ==
    /\ AppInit /\ up = Unused /\ rr = Unused /\ llm = Unused
    /\ sd = Unused /\ tf = Unused
    /\ \E texts \in SeqsUpTo(MdTexts, MaxSplits), aliased \in BOOLEAN,
          headings \in MdHeadings :
        \E pages \in [1..Len(texts) -> 0..MaxMdPage] :
            LET all_splits == MdChunks(texts, pages, aliased)
            IN  md = [pc |-> "call", aliased |-> aliased, all_splits |-> all_splits,
                      heap |-> MdHeap(all_splits, headings),
                      sent |-> <<>>, raised |-> FALSE]

\* add_to_vector_collection(all_splits, file_name, min_chunk_length) with a
\* store that accepts the upsert
MdCall ==
    /\ md.pc = "call"
    /\ LET done == metadata_loop(md.all_splits, UpFileName, MdMinChunkLength, 1, {},
                                 md.heap, <<>>)
       IN  md' = [md EXCEPT !.pc = "returned", !.heap = done.heap,
                            !.raised = done.raised,
                            !.sent = IF done.raised THEN <<>> ELSE upsert_arguments(done)]
    /\ UNCHANGED <<appVars, up, rr, llm, sd, tf>>

SpecMeta == MdInit /\ [][MdCall]_vars

\* the positions (from 0) of the chunks whose trimmed text is text
PositionsOf(text) ==
    {k - 1 : k \in {j \in 1..Len(md.all_splits) :
                        strip(md.all_splits[j].page_content) = text}}

\* C15: every record sent in an upsert is self-consistent: its id is
\* {file_name}_{i} with i the position of its chunk before filtering, its
\* chunk_id is i and its text_length is the length of its own text, also when
\* chunks of one page share their parent's metadata.
C15_RecordsSelfConsistent ==
    md # Unused =>
        \A n \in 1..Len(md.sent) :
            LET record == md.sent[n]
            IN  /\ \E idx \in PositionsOf(record.document) :
                        /\ record.id = UpFileName \o <<"_">> \o str_int(idx)
                        /\ record.metadata.chunk_id = idx
                /\ record.metadata.text_length = Len(record.document)
                /\ record.metadata.source_file = UpFileName

\* C15 witness: chunks of one page share one metadata dict, two of them come
\* from that page (one is filtered out), and the surviving one was sent
C15_Witness ==
    /\ md # Unused
    /\ md.pc = "returned"
    /\ md.aliased
    /\ ~md.raised
    /\ Len(md.all_splits) = 3
    /\ md.all_splits[1].metadata = md.all_splits[2].metadata
    /\ md.all_splits[2].metadata # md.all_splits[3].metadata
    /\ Len(md.sent) = 2
    /\ md.sent[1].metadata.chunk_id = 1
    /\ md.sent[2].metadata.chunk_id = 2

=============================================================================
